---- MODULE Spec2Model ----
(***************************************************************************)
(* Contact manager (src/contact_manager.py): the Contact value with its    *)
(* validation, the ContactsCollection with its merge / remove / sort, the  *)
(* StorageManager that holds one pickled blob, the ContactManager that     *)
(* mutates the collection and persists it, and the menu loop of main().    *)
(*                                                                         *)
(* A Python str is a sequence of one-character strings, so that strip(),   *)
(* lower(), the email pattern and the ordering of names are computed.      *)
(***************************************************************************)
EXTENDS Integers, Sequences, FiniteSets, TLC

\* Longest list read from a backing file that the program did not write.
MaxFileItems == 2
\* Longest list / mapping handed to += and -= by a client of the collection.
MaxBulk == 2
\* Most saves that the file system lets fail in one run.
MaxSaveFailures == 1

----------------------------------------------------------------------------
\* str

\* ord(c): the code point, which orders str comparison.
Ord(c) ==
  CASE c = " " -> 32 [] c = "." -> 46 [] c = "1" -> 49 [] c = "2" -> 50
    [] c = "@" -> 64 [] c = "A" -> 65 [] c = "B" -> 66 [] c = "X" -> 88
    [] c = "a" -> 97 [] c = "b" -> 98 [] c = "x" -> 120 [] c = "y" -> 121
    [] c = "z" -> 122

LowerChar(c) ==
  CASE c = "A" -> "a" [] c = "B" -> "b" [] c = "X" -> "x" [] OTHER -> c

\* str.lower()
Lower(s) == [i \in 1..Len(s) |-> LowerChar(s[i])]

IsSpace(c) == c = " "

RECURSIVE LStrip(_)
LStrip(s) == IF s # <<>> /\ IsSpace(Head(s)) THEN LStrip(Tail(s)) ELSE s

RECURSIVE RStrip(_)
RStrip(s) ==
  IF s # <<>> /\ IsSpace(s[Len(s)]) THEN RStrip(SubSeq(s, 1, Len(s) - 1)) ELSE s

\* str.strip()
Strip(s) == RStrip(LStrip(s))

\* s < t on str: the first differing code point decides, a proper prefix is less.
RECURSIVE StrLess(_, _)
StrLess(s, t) ==
  IF t = <<>> THEN FALSE
  ELSE IF s = <<>> THEN TRUE
  ELSE IF Head(s) # Head(t) THEN Ord(Head(s)) < Ord(Head(t))
  ELSE StrLess(Tail(s), Tail(t))

\* None, as an argument of update_contact; no str equals it.
None == <<"None">>

\* Truth value of an Optional[str]: None and "" are false.
Truthy(v) == v # None /\ v # <<>>

----------------------------------------------------------------------------
\* Python values that a collection operation or an unpickled list may hold.

NewContact(n, p, e) ==
  [type |-> "Contact", name |-> n, phone |-> p, email |-> e, items |-> <<>>]

IntObj ==
  [type |-> "int", name |-> <<>>, phone |-> <<>>, email |-> <<>>, items |-> <<>>]

ListObj(xs) ==
  [type |-> "list", name |-> <<>>, phone |-> <<>>, email |-> <<>>, items |-> xs]

\* A dict, as the sequence of its values in iteration order.
DictObj(xs) ==
  [type |-> "dict", name |-> <<>>, phone |-> <<>>, email |-> <<>>, items |-> xs]

isContact(v) == v.type = "Contact"

----------------------------------------------------------------------------
\* Contact

\* EMAIL_REGEX.fullmatch: [^@]+ @ [^@]+ \. [^@]+
EMAIL_REGEX(e) ==
  \E i \in 2..Len(e) :
    /\ e[i] = "@"
    /\ \A k \in 1..Len(e) : e[k] = "@" => k = i
    /\ \E j \in (i + 2)..(Len(e) - 1) : e[j] = "."

\* Fault: the emptiness test made on the value before it is stripped.
validate_non_empty_untrimmed(value) ==
  [ok |-> value # <<>>, value |-> Strip(value)]

validate_non_empty(value) ==
  LET v == Strip(value) IN [ok |-> v # <<>>, value |-> v]

validate_email(email) ==
  LET v == Strip(email) IN [ok |-> EMAIL_REGEX(v), value |-> v]

\* Contact.__init__: the validated contact, or ok = FALSE for a ValueError.
Contact_init(name, phone, email) ==
  LET n == validate_non_empty(name)
      p == validate_non_empty(phone)
      e == validate_email(email)
  IN  IF n.ok /\ p.ok /\ e.ok
      THEN [ok |-> TRUE, value |-> NewContact(n.value, p.value, e.value)]
      ELSE [ok |-> FALSE, value |-> IntObj]

\* Fault: __eq__ that compares the names as stored, without lower().
eq_case_sensitive(a, b) ==
  IF isContact(a) /\ isContact(b) THEN a.name = b.name ELSE a = b

\* Contact.__eq__, and the identity / default comparison for anything else.
eq(a, b) ==
  IF isContact(a) /\ isContact(b) THEN Lower(a.name) = Lower(b.name) ELSE a = b

\* Contact.__lt__
lt(a, b) == StrLess(Lower(a.name), Lower(b.name))

----------------------------------------------------------------------------
\* ContactsCollection: _contacts is a sequence of contacts.

\* contact in self._contacts
contains(cs, c) == \E i \in 1..Len(cs) : eq(cs[i], c)

\* Fault: a merge that overwrites the stored contact of the same name.
_add_contact_overwrite(cs, contact) ==
  IF ~isContact(contact) THEN [raised |-> TRUE, cs |-> cs]
  ELSE IF ~contains(cs, contact) THEN [raised |-> FALSE, cs |-> Append(cs, contact)]
  ELSE [raised |-> FALSE,
        cs |-> [i \in 1..Len(cs) |-> IF eq(cs[i], contact) THEN contact ELSE cs[i]]]

_add_contact(cs, contact) ==
  IF ~isContact(contact) THEN [raised |-> TRUE, cs |-> cs]
  ELSE IF ~contains(cs, contact) THEN [raised |-> FALSE, cs |-> Append(cs, contact)]
  ELSE [raised |-> FALSE, cs |-> cs]

\* for item in other: self._add_contact(item); an exception leaves the items
\* added before it in place.
RECURSIVE add_each(_, _)
add_each(cs, items) ==
  IF items = <<>> THEN [raised |-> FALSE, cs |-> cs]
  ELSE LET r == _add_contact(cs, Head(items))
       IN  IF r.raised THEN r ELSE add_each(r.cs, Tail(items))

_extend(cs, other) ==
  IF isContact(other) THEN _add_contact(cs, other)
  ELSE IF other.type \in {"list", "dict"} THEN add_each(cs, other.items)
  ELSE [raised |-> TRUE, cs |-> cs]

\* list.remove(x): drops the first element equal to x, ValueError when none is.
RECURSIVE list_remove(_, _)
list_remove(cs, x) ==
  IF cs = <<>> THEN [raised |-> TRUE, cs |-> cs]
  ELSE IF eq(Head(cs), x) THEN [raised |-> FALSE, cs |-> Tail(cs)]
  ELSE LET r == list_remove(Tail(cs), x)
       IN  [raised |-> r.raised, cs |-> <<Head(cs)>> \o r.cs]

\* Fault: a bulk removal that undoes its removals when an item is missing.
RECURSIVE remove_each_run(_, _)
remove_each_run(cs, items) ==
  IF items = <<>> THEN [raised |-> FALSE, cs |-> cs]
  ELSE LET r == list_remove(cs, Head(items))
       IN  IF r.raised THEN [raised |-> TRUE, cs |-> cs]
           ELSE remove_each_run(r.cs, Tail(items))

remove_each_atomic(cs, items) ==
  LET r == remove_each_run(cs, items)
  IN  IF r.raised THEN [raised |-> TRUE, cs |-> cs] ELSE r

RECURSIVE remove_each(_, _)
remove_each(cs, items) ==
  IF items = <<>> THEN [raised |-> FALSE, cs |-> cs]
  ELSE LET r == list_remove(cs, Head(items))
       IN  IF r.raised THEN [raised |-> TRUE, cs |-> cs]
           ELSE remove_each(r.cs, Tail(items))

_remove(cs, other) ==
  IF isContact(other) THEN
    LET r == list_remove(cs, other)
    IN  IF r.raised THEN [raised |-> TRUE, cs |-> cs] ELSE r
  ELSE IF other.type \in {"list", "dict"} THEN remove_each(cs, other.items)
  ELSE [raised |-> TRUE, cs |-> cs]

\* Fault: the sort left out.
sort_skipped(cs) == cs

\* list.sort() with Contact.__lt__: stable.
RECURSIVE insert_sorted(_, _)
insert_sorted(sorted, x) ==
  IF sorted = <<>> THEN <<x>>
  ELSE IF lt(x, Head(sorted)) THEN <<x>> \o sorted
  ELSE <<Head(sorted)>> \o insert_sorted(Tail(sorted), x)

RECURSIVE sort(_)
sort(cs) ==
  IF cs = <<>> THEN <<>>
  ELSE insert_sorted(sort(SubSeq(cs, 1, Len(cs) - 1)), cs[Len(cs)])

find_by_name(cs, name) ==
  SelectSeq(cs, LAMBDA c : Lower(c.name) = Lower(name))

----------------------------------------------------------------------------
\* pickle: a blob holds, per object, its class and its instance state.

NoRoot == [cls |-> "none", state |-> <<>>, items |-> <<>>]

RECURSIVE Reduce(_)
Reduce(v) ==
  IF isContact(v)
  THEN [cls |-> "Contact", state |-> <<v.name, v.phone, v.email>>, items |-> <<>>]
  ELSE [cls |-> v.type, state |-> <<>>,
        items |-> [i \in 1..Len(v.items) |-> Reduce(v.items[i])]]

\* Fault: a blob read back with phone and email exchanged.
RECURSIVE Rebuild_swapped(_)
Rebuild_swapped(r) ==
  IF r.cls = "Contact" THEN NewContact(r.state[1], r.state[3], r.state[2])
  ELSE [type |-> r.cls, name |-> <<>>, phone |-> <<>>, email |-> <<>>,
        items |-> [i \in 1..Len(r.items) |-> Rebuild_swapped(r.items[i])]]

\* Unpickling restores the instance state without running Contact.__init__.
RECURSIVE Rebuild(_)
Rebuild(r) ==
  IF r.cls = "Contact" THEN NewContact(r.state[1], r.state[2], r.state[3])
  ELSE [type |-> r.cls, name |-> <<>>, phone |-> <<>>, email |-> <<>>,
        items |-> [i \in 1..Len(r.items) |-> Rebuild(r.items[i])]]

\* The contents of the backing file: absent, b"", bytes that are no pickle,
\* or a pickle.
Missing == [kind |-> "missing", root |-> NoRoot]
EmptyBytes == [kind |-> "empty", root |-> NoRoot]
Garbage == [kind |-> "garbage", root |-> NoRoot]

pickle_dumps(v) == [kind |-> "pickle", root |-> Reduce(v)]

\* pickle.loads: ok = FALSE for any exception it raises.
pickle_loads(raw) ==
  IF raw.kind = "pickle" THEN [ok |-> TRUE, value |-> Rebuild(raw.root)]
  ELSE [ok |-> FALSE, value |-> IntObj]

----------------------------------------------------------------------------
\* StorageManager. io is what the file system does to the call: "ok", or for
\* save "eopen" (open fails), "etrunc" (open truncates, write fails),
\* "epartial" (write stops part way); for load "enoent" (the file is gone),
\* "eio" (any other OSError).

SaveIO == {"ok", "eopen", "etrunc", "epartial"}
LoadIO == {"ok", "enoent", "eio"}

\* StorageManager.__init__: an absent file is created empty.
StorageManager_init(f) == IF f.kind = "missing" THEN EmptyBytes ELSE f

StorageManager_save(f, data, io) ==
  CASE io = "ok" -> [raised |-> FALSE, file |-> data]
    [] io = "eopen" -> [raised |-> TRUE, file |-> f]
    [] io = "etrunc" -> [raised |-> TRUE, file |-> EmptyBytes]
    [] OTHER -> [raised |-> TRUE, file |-> Garbage]

\* none = TRUE is the None returned for FileNotFoundError.
StorageManager_load(f, io) ==
  CASE io = "ok" -> [raised |-> FALSE, none |-> FALSE, data |-> f, file |-> f]
    [] io = "enoent" ->
         [raised |-> FALSE, none |-> TRUE, data |-> Missing, file |-> Missing]
    [] OTHER -> [raised |-> TRUE, none |-> TRUE, data |-> f, file |-> f]

----------------------------------------------------------------------------
\* ContactManager. Each operation yields the collection and the file it
\* leaves, the kind of line it prints (msg), what happened (note), the
\* outcome of the save or load it attempted (io, "none" when it attempted
\* none) and whether an exception left it (raised).

Outcome(cs, f, msg, note, io, raised) ==
  [contacts |-> cs, file |-> f, msg |-> msg, note |-> note, io |-> io,
   raised |-> raised]

\* for c in loaded: self.contacts += c
RECURSIVE extend_each(_, _)
extend_each(cs, loaded) ==
  IF loaded = <<>> THEN [raised |-> FALSE, cs |-> cs]
  ELSE LET r == _extend(cs, Head(loaded))
       IN  IF r.raised THEN r ELSE extend_each(r.cs, Tail(loaded))

\* _load_contacts on what storage.load returned.
_load_contacts(cs, raw) ==
  IF raw.none \/ raw.data.kind = "empty" THEN [cs |-> cs, msg |-> "none"]
  ELSE LET loaded == pickle_loads(raw.data)
       IN  IF ~loaded.ok THEN [cs |-> cs, msg |-> "Warning"]
           ELSE IF loaded.value.type = "list"
           THEN LET r == extend_each(cs, loaded.value.items)
                IN  [cs |-> r.cs, msg |-> IF r.raised THEN "Warning" ELSE "Loaded"]
           ELSE [cs |-> cs, msg |-> "none"]

_save_contacts(cs, f, io) == StorageManager_save(f, pickle_dumps(ListObj(cs)), io)

\* ContactManager.__init__
ContactManager_init(f, io) ==
  LET f0 == StorageManager_init(f)
      raw == StorageManager_load(f0, io)
      ld == _load_contacts(<<>>, raw)
  IN  IF raw.raised THEN Outcome(<<>>, raw.file, "none", "loaderror", io, TRUE)
      ELSE Outcome(ld.cs, raw.file, ld.msg, "loaded", io, FALSE)

add_contact(cs, f, name, phone, email, io) ==
  LET c == Contact_init(name, phone, email)
      cs1 == sort(_extend(cs, c.value).cs)
      sv == _save_contacts(cs1, f, io)
  IN  IF ~c.ok THEN Outcome(cs, f, "Error", "invalid", "none", FALSE)
      ELSE Outcome(cs1, sv.file, IF sv.raised THEN "Error" ELSE "Added",
                   IF contains(cs, c.value) THEN "duplicate" ELSE "new", io, FALSE)

\* Fault: the replacement built from the name as typed, not as stored.
update_contact_typed_name(cs, f, name, phone, email, io) ==
  LET matches == find_by_name(cs, name)
      contact == matches[1]
      new_phone == IF Truthy(phone) THEN Strip(phone) ELSE contact.phone
      new_email == IF Truthy(email) THEN Strip(email) ELSE contact.email
      updated == Contact_init(name, new_phone, new_email)
      removed == _remove(cs, contact)
      cs1 == sort(_extend(removed.cs, updated.value).cs)
      sv == _save_contacts(cs1, f, io)
  IN  IF matches = <<>> THEN Outcome(cs, f, "Info", "notfound", "none", FALSE)
      ELSE IF ~updated.ok THEN Outcome(cs, f, "Error", "invalid", "none", FALSE)
      ELSE Outcome(cs1, sv.file, IF sv.raised THEN "Error" ELSE "Updated",
                   "updated", io, FALSE)

update_contact(cs, f, name, phone, email, io) ==
  LET matches == find_by_name(cs, name)
      contact == matches[1]
      new_phone == IF Truthy(phone) THEN Strip(phone) ELSE contact.phone
      new_email == IF Truthy(email) THEN Strip(email) ELSE contact.email
      updated == Contact_init(contact.name, new_phone, new_email)
      removed == _remove(cs, contact)
      cs1 == sort(_extend(removed.cs, updated.value).cs)
      sv == _save_contacts(cs1, f, io)
  IN  IF matches = <<>> THEN Outcome(cs, f, "Info", "notfound", "none", FALSE)
      ELSE IF ~updated.ok THEN Outcome(cs, f, "Error", "invalid", "none", FALSE)
      ELSE IF removed.raised THEN Outcome(cs, f, "Error", "valueerror", "none", FALSE)
      ELSE Outcome(cs1, sv.file, IF sv.raised THEN "Error" ELSE "Updated",
                   "updated", io, FALSE)

\* for c in matches: self.contacts -= c
RECURSIVE isub_each(_, _)
isub_each(cs, matches) ==
  IF matches = <<>> THEN [raised |-> FALSE, cs |-> cs]
  ELSE LET r == _remove(cs, Head(matches))
       IN  IF r.raised THEN r ELSE isub_each(r.cs, Tail(matches))

\* Fault: delete_contact wrapped in the try / except of add_contact.
delete_contact_guarded(cs, f, name, io) ==
  LET matches == find_by_name(cs, name)
      removed == isub_each(cs, matches)
      cs1 == sort(removed.cs)
      sv == _save_contacts(cs1, f, io)
  IN  IF matches = <<>> THEN Outcome(cs, f, "Info", "notfound", "none", FALSE)
      ELSE Outcome(cs1, sv.file, IF sv.raised THEN "Error" ELSE "Deleted",
                   "deleted", io, FALSE)

delete_contact(cs, f, name, io) ==
  LET matches == find_by_name(cs, name)
      removed == isub_each(cs, matches)
      cs1 == sort(removed.cs)
      sv == _save_contacts(cs1, f, io)
  IN  IF matches = <<>> THEN Outcome(cs, f, "Info", "notfound", "none", FALSE)
      ELSE IF removed.raised
      THEN Outcome(removed.cs, f, "none", "valueerror", "none", TRUE)
      ELSE Outcome(cs1, sv.file, IF sv.raised THEN "none" ELSE "Deleted",
                   "deleted", io, sv.raised)

view_contacts(cs, f) ==
  Outcome(cs, f, IF Len(cs) = 0 THEN "Info" ELSE "List", "viewed", "none", FALSE)

search_contact(cs, f, name) ==
  LET matches == find_by_name(cs, name)
  IN  IF matches = <<>> THEN Outcome(cs, f, "Info", "notfound", "none", FALSE)
      ELSE Outcome(cs, f, "Found", "found", "none", FALSE)

----------------------------------------------------------------------------
\* Inputs: what the user types at the prompts, what a backing file left by
\* something else may hold, and what a client hands to the collection.

sAt == <<"x", "@", "y", ".", "z">>
sAtUpper == <<"X", "@", "y", ".", "z">>
sBlank == <<" ">>

\* Name, phone and email typed for option 1: three that pass validation (two
\* of them equal as names, two that need trimming) and one per way to fail.
AddInputs ==
  { <<<<"a">>, <<"1">>, sAt>>,
    <<<<"A">>, <<" ", "2">>, sBlank \o sAtUpper>>,
    <<<<" ", "b", " ">>, <<"1">>, sAt>>,
    <<sBlank, <<"1">>, sAt>>,
    <<<<"b">>, <<>>, sAt>>,
    <<<<"b">>, sBlank, sAt>>,
    <<<<"b">>, <<"1">>, <<"x", "@", "y">>>>,
    <<<<"b">>, <<"1">>, <<>>>> }

\* Names typed for options 2, 3 and 5.
LookupNames == {<<"A">>, <<"b">>, <<" ", "b">>}

\* New phone and new email typed for option 2; <<>> is a blank line.
UpdateInputs ==
  { <<<<>>, <<>>>>,
    <<<<" ", "2">>, <<>>>>,
    <<<<>>, sAtUpper \o sBlank>>,
    <<<<"1">>, sAt>>,
    <<sBlank, <<>>>>,
    <<<<>>, <<"x", "@", ".", "z">>>> }

cA1 == NewContact(<<"a">>, <<"1">>, sAt)
cA2 == NewContact(<<"A">>, <<"2">>, sAtUpper)
cB1 == NewContact(<<"b">>, <<"1">>, sAt)

SeqsUpTo(S, n) == UNION {[1..k -> S] : k \in 0..n}

FileItems == {cB1, cA2, IntObj, ListObj(<<cA1>>)}

InitFiles ==
  {Missing, EmptyBytes, Garbage, pickle_dumps(IntObj)}
    \cup {pickle_dumps(ListObj(xs)) : xs \in SeqsUpTo(FileItems, MaxFileItems)}

ApiItems == {cA1, cA2, cB1, IntObj}

ApiInputs ==
  ApiItems \cup {ListObj(xs) : xs \in SeqsUpTo(ApiItems, MaxBulk)}
           \cup {DictObj(xs) : xs \in SeqsUpTo(ApiItems, MaxBulk)}

----------------------------------------------------------------------------
\* State.
\*   file      the contents of contacts.dat
\*   contacts  ContactManager.contacts._contacts of the running process
\*   pc        "start" before main() runs, "loop" at the menu prompt, "exited"
\*             after option 6, "crashed" when an exception left main(), "api"
\*             when the collection is used directly by a client instead
\*   last      what the last operation was and what it did (see Outcome)
\*   failures  the number of saves that have failed so far
\*   coll      the _contacts of the collection a client uses
\*   collLast  the client's last call: its name, the type of its argument and
\*             the number of items in it, whether it raised, the _contacts of
\*             the collection it worked on (self, or the copy made by + and -)
\*             and by how much that one shrank
VARIABLES file, contacts, pc, last, failures, coll, collLast

vars == <<file, contacts, pc, last, failures, coll, collLast>>

NoOp == [op |-> "none", msg |-> "none", note |-> "none", io |-> "none",
         raised |-> FALSE]
NoCall == [op |-> "none", type |-> "none", size |-> 0, raised |-> FALSE,
           target |-> <<>>, shrank |-> 0]

\* The program, started on a backing file in any condition.
InitApp ==
  /\ contacts = <<>>
  /\ last = NoOp
  /\ failures = 0
  /\ coll = <<>>
  /\ collLast = NoCall
  /\ pc = "start"
  /\ file \in InitFiles

\* A client that builds a ContactsCollection of its own.
InitApi ==
  /\ contacts = <<>>
  /\ last = NoOp
  /\ failures = 0
  /\ coll = <<>>
  /\ collLast = NoCall
  /\ pc = "api"
  /\ file = Missing

Init == InitApp \/ InitApi

\* The program on its first run ever: no backing file, or an empty one.
InitFresh == InitApp /\ file \in {Missing, EmptyBytes}

\* What the file system may do to a save.
SaveChoices == IF failures < MaxSaveFailures THEN SaveIO ELSE {"ok"}

Apply(op, r) ==
  /\ contacts' = r.contacts
  /\ file' = r.file
  /\ last' = [op |-> op, msg |-> r.msg, note |-> r.note, io |-> r.io,
              raised |-> r.raised]
  /\ pc' = IF r.raised THEN "crashed" ELSE "loop"
  /\ failures' = IF r.io \in SaveIO \ {"ok"} THEN failures + 1 ELSE failures
  /\ UNCHANGED <<coll, collLast>>

\* main() up to the first prompt: manager = ContactManager(), on the first run
\* or on a later run of the program.
Startup ==
  /\ pc \in {"start", "exited", "crashed"}
  /\ \E io \in LoadIO : Apply("startup", ContactManager_init(file, io))

MenuAdd(name, phone, email) ==
  /\ pc = "loop"
  /\ \E io \in SaveChoices :
       Apply("add", add_contact(contacts, file, name, phone, email, io))

\* phone if phone else None, email if email else None
main_update(cs, f, name, phone, email, io) ==
  update_contact(cs, f, name, IF phone # <<>> THEN phone ELSE None,
                 IF email # <<>> THEN email ELSE None, io)

MenuUpdate(name, phone, email) ==
  /\ pc = "loop"
  /\ \E io \in SaveChoices :
       Apply("update", main_update(contacts, file, name, phone, email, io))

MenuDelete(name) ==
  /\ pc = "loop"
  /\ \E io \in SaveChoices :
       Apply("delete", delete_contact(contacts, file, name, io))

MenuView ==
  /\ pc = "loop"
  /\ Apply("view", view_contacts(contacts, file))

MenuSearch(name) ==
  /\ pc = "loop"
  /\ Apply("search", search_contact(contacts, file, name))

MenuExit ==
  /\ pc = "loop"
  /\ pc' = "exited"
  /\ last' = [NoOp EXCEPT !.op = "exit", !.msg = "Goodbye"]
  /\ UNCHANGED <<file, contacts, failures, coll, collLast>>

MenuInvalid ==
  /\ pc = "loop"
  /\ Apply("invalid", Outcome(contacts, file, "Warning", "none", "none", FALSE))

----------------------------------------------------------------------------
\* A client of ContactsCollection.

\* ContactsCollection.__init__(data)
ContactsCollection_init(data) ==
  IF data # <<>> THEN _extend(<<>>, ListObj(data)).cs ELSE <<>>

\* __add__ and __sub__ work on a copy; self is left alone.
__add__(cs, other) == _extend(ContactsCollection_init(cs), other)
__sub__(cs, other) == _remove(ContactsCollection_init(cs), other)

ApiCall(op, arg, r, inplace) ==
  /\ pc = "api"
  /\ coll' = IF inplace THEN r.cs ELSE coll
  /\ collLast' = [op |-> op, type |-> arg.type, size |-> Len(arg.items),
                  raised |-> r.raised, target |-> r.cs,
                  shrank |-> Len(coll) - Len(r.cs)]
  /\ UNCHANGED <<file, contacts, pc, last, failures>>

ApiIadd(other) == ApiCall("iadd", other, _extend(coll, other), TRUE)
ApiIsub(other) == ApiCall("isub", other, _remove(coll, other), TRUE)
ApiAdd(other) == ApiCall("add", other, __add__(coll, other), FALSE)
ApiSub(other) == ApiCall("sub", other, __sub__(coll, other), FALSE)
ApiSort ==
  ApiCall("sort", ListObj(<<>>), [raised |-> FALSE, cs |-> sort(coll)], TRUE)

----------------------------------------------------------------------------

NextApp ==
  \/ Startup
  \/ \E a \in AddInputs : MenuAdd(a[1], a[2], a[3])
  \/ \E n \in LookupNames, u \in UpdateInputs : MenuUpdate(n, u[1], u[2])
  \/ \E n \in LookupNames : MenuDelete(n)
  \/ MenuView
  \/ \E n \in LookupNames : MenuSearch(n)
  \/ MenuExit
  \/ MenuInvalid

NextApi ==
  \/ \E x \in ApiInputs : ApiIadd(x)
  \/ \E x \in ApiInputs : ApiIsub(x)
  \/ \E x \in ApiInputs : ApiAdd(x)
  \/ \E x \in ApiInputs : ApiSub(x)
  \/ ApiSort

Next == NextApp \/ NextApi

\* The program on any backing file, and the collection under a client.
Spec == Init /\ [][Next]_vars

\* The program from its first run on, across restarts.
SpecFresh == InitFresh /\ [][NextApp]_vars

----------------------------------------------------------------------------
\* Vocabulary of the properties, stated on names and positions only.

Key(c) == Lower(c.name)

Unique(cs) == \A i, j \in 1..Len(cs) : i # j => Key(cs[i]) # Key(cs[j])

Sorted(cs) == \A i \in 1..(Len(cs) - 1) : ~StrLess(Key(cs[i + 1]), Key(cs[i]))

Elems(cs) == {cs[i] : i \in 1..Len(cs)}

HasName(cs, n) == \E i \in 1..Len(cs) : Key(cs[i]) = Lower(n)

Named(cs, n) == {c \in Elems(cs) : Key(c) = Lower(n)}

HasEqual(cs, x) == isContact(x) /\ HasName(cs, x.name)

FirstEqual(cs, x) ==
  CHOOSE i \in 1..Len(cs) :
    /\ Key(cs[i]) = Key(x)
    /\ \A j \in 1..(i - 1) : Key(cs[j]) # Key(x)

WithoutAt(cs, i) == SubSeq(cs, 1, i - 1) \o SubSeq(cs, i + 1, Len(cs))

\* cs after the first k of items were removed, one first-equal element each.
RECURSIVE AfterRemovals(_, _, _)
AfterRemovals(cs, items, k) ==
  IF k = 0 THEN cs
  ELSE LET before == AfterRemovals(cs, items, k - 1)
       IN  WithoutAt(before, FirstEqual(before, items[k]))

\* Each of the first k of items finds an equal element when its turn comes.
Removable(cs, items, k) ==
  \A j \in 1..k : HasEqual(AfterRemovals(cs, items, j - 1), items[j])

\* The three fields as typed pass validation once trimmed.
PassesValidation(name, phone, email) ==
  /\ Strip(name) # <<>>
  /\ Strip(phone) # <<>>
  /\ EMAIL_REGEX(Strip(email))

FailedSave(io) == io \in {"eopen", "etrunc", "epartial"}

----------------------------------------------------------------------------
\* C1. Uniqueness: the manager's store, after startup and after any sequence
\* of add, update and delete, and a collection after any sequence of +=, -=,
\* +, - and sort, never hold two contacts whose names are equal ignoring
\* case; so find_by_name returns at most one contact for any name.
C1_Uniqueness ==
  /\ Unique(contacts)
  /\ Unique(coll)
  /\ Unique(collLast.target)
  /\ \A n \in LookupNames \cup {<<"a">>} : Len(find_by_name(contacts, n)) <= 1

\* A second add under a name already stored in another case was suppressed.
C1_Witness ==
  /\ pc = "loop"
  /\ last.op = "add"
  /\ last.note = "duplicate"
  /\ Len(contacts) = 2

\* C2. Ordering: from an absent or empty backing file on, whenever the manager
\* is at the menu prompt (after startup, after every completed operation,
\* after a restart that reloads the file), adjacent contacts a, b of the store
\* satisfy a.name.lower() <= b.name.lower().
C2_Ordering == pc = "loop" => Sorted(contacts)

\* A restart reloaded two contacts.
C2_Witness ==
  /\ pc = "loop"
  /\ last.op = "startup"
  /\ last.msg = "Loaded"
  /\ Len(contacts) = 2

\* C3. Round trip: while no save has failed, the store that a new
\* ContactManager builds from the backing file is the current store, contact
\* by contact with the same name, phone and email; and right after an add,
\* update or delete that saved, the file is the serialization of the store.
C3_RoundTrip ==
  (pc = "loop" /\ failures = 0) =>
    /\ ContactManager_init(file, "ok").contacts = contacts
    /\ (last.op \in {"add", "update", "delete"} /\ last.io = "ok")
         => file = pickle_dumps(ListObj(contacts))

\* An update was saved with two contacts in the store.
C3_Witness ==
  /\ pc = "loop"
  /\ failures = 0
  /\ last.op = "update"
  /\ last.msg = "Updated"
  /\ Len(contacts) = 2

\* C4. Merge is add-if-absent: add_contact with fields that pass validation,
\* and += with a contact, leave the size unchanged and every stored contact
\* as it was when a contact of the same name ignoring case is stored, and
\* otherwise grow the store by exactly the new (trimmed) contact.
C4_MergeAddIfAbsent ==
  /\ pc = "loop" =>
       \A a \in AddInputs, io \in SaveIO :
         LET r == add_contact(contacts, file, a[1], a[2], a[3], io)
             c == NewContact(Strip(a[1]), Strip(a[2]), Strip(a[3]))
         IN  PassesValidation(a[1], a[2], a[3]) =>
               /\ ~r.raised
               /\ Elems(contacts) \subseteq Elems(r.contacts)
               /\ IF HasName(contacts, c.name)
                  THEN Len(r.contacts) = Len(contacts)
                  ELSE /\ Len(r.contacts) = Len(contacts) + 1
                       /\ c \in Elems(r.contacts)
  /\ pc = "api" =>
       \A c \in {x \in ApiItems : isContact(x)} :
         LET r == _extend(coll, c)
         IN  /\ ~r.raised
             /\ Elems(coll) \subseteq Elems(r.cs)
             /\ IF HasName(coll, c.name)
                THEN Len(r.cs) = Len(coll)
                ELSE Len(r.cs) = Len(coll) + 1 /\ c \in Elems(r.cs)

\* "A", " 2" was added while "a", "1" was stored: "a", "1" is still the store.
C4_Witness ==
  /\ pc = "loop"
  /\ last.op = "add"
  /\ last.note = "duplicate"
  /\ contacts = <<cA1>>

\* What update_contact is asked to store for a contact: the text typed, or
\* the stored value where the line was left blank; with trim, stripped.
Requested(typed, stored, trim) ==
  LET v == IF typed = <<>> THEN stored ELSE typed
  IN  IF trim THEN Strip(v) ELSE v

\* update_contact found old and the resulting values pass validation; after
\* is the store it leaves.
UpdateReplacesOne(old, u, after, trim) ==
  /\ Len(after) = Len(contacts)
  /\ {c.name : c \in Elems(after)} = {c.name : c \in Elems(contacts)}
  /\ \E c \in Elems(after) :
       /\ c.name = old.name
       /\ c.phone = Requested(u[1], old.phone, trim)
       /\ c.email = Requested(u[2], old.email, trim)
  /\ Elems(contacts) \ {old} \subseteq Elems(after)

UpdateCases(trim) ==
  pc = "loop" =>
    \A n \in LookupNames, u \in UpdateInputs :
      \A old \in Named(contacts, n) :
        PassesValidation(old.name, Requested(u[1], old.phone, FALSE),
                         Requested(u[2], old.email, FALSE))
          => \A io \in SaveIO :
               LET after == main_update(contacts, file, n, u[1], u[2], io).contacts
               IN  UpdateReplacesOne(old, u, after, trim)

\* C5 as stated. Update replaces exactly one record: when a contact matches n
\* ignoring case and the resulting values pass validation, the size and the
\* set of stored names are unchanged, the contact named n has the given phone
\* (the previous one when omitted) and the given email (the previous one when
\* omitted), and every other contact is unchanged.
C5_UpdateStoresGiven == UpdateCases(FALSE)

\* C5 as amended: the same, with the given phone and email stored with their
\* surrounding whitespace stripped.
C5_UpdateStoresTrimmed == UpdateCases(TRUE)

\* An update went through with another contact beside the updated one.
C5_Witness ==
  /\ pc = "loop"
  /\ last.op = "update"
  /\ last.note = "updated"
  /\ Len(contacts) = 2
  /\ \E c \in Elems(contacts) : c.phone = <<"2">> /\ c.email = sAt

\* C6. Rejected operations change nothing: an add or update that validation
\* rejects (name, phone empty or email malformed, after trimming), and an
\* update, delete or search for a name that is not stored, leave the store,
\* its order and the backing file exactly as they were.
C6_RejectedChangesNothing ==
  pc = "loop" =>
    /\ \A a \in AddInputs, io \in SaveIO :
         LET r == add_contact(contacts, file, a[1], a[2], a[3], io)
         IN  ~PassesValidation(a[1], a[2], a[3])
               => r.contacts = contacts /\ r.file = file
    /\ \A n \in LookupNames, u \in UpdateInputs, io \in SaveIO :
         LET r == main_update(contacts, file, n, u[1], u[2], io)
             rejected ==
               \/ ~HasName(contacts, n)
               \/ \E old \in Named(contacts, n) :
                    ~PassesValidation(old.name, Requested(u[1], old.phone, FALSE),
                                      Requested(u[2], old.email, FALSE))
         IN  rejected => r.contacts = contacts /\ r.file = file
    /\ \A n \in LookupNames, io \in SaveIO :
         LET r == delete_contact(contacts, file, n, io)
         IN  ~HasName(contacts, n) => r.contacts = contacts /\ r.file = file
    /\ \A n \in LookupNames :
         LET r == search_contact(contacts, file, n)
         IN  r.contacts = contacts /\ r.file = file

\* An update was rejected by validation while contacts were stored and saved.
C6_Witness ==
  /\ pc = "loop"
  /\ last.op = "update"
  /\ last.note = "invalid"
  /\ Len(contacts) = 2
  /\ file = pickle_dumps(ListObj(contacts))

\* The loaded bytes do not deserialize into a list of contacts.
Corrupt(f) ==
  \/ f.kind = "garbage"
  \/ /\ f.kind = "pickle"
     /\ \/ f.root.cls # "list"
        \/ \E i \in 1..Len(f.root.items) : f.root.items[i].cls # "Contact"

\* C7. Corrupt persisted state yields an empty store: when the bytes loaded at
\* startup are undecodable, or no list, or a list with an element that is no
\* contact, construction completes without raising and the store is empty.
C7_CorruptLoadsEmpty ==
  (last.op = "startup" /\ last.io = "ok" /\ Corrupt(file))
    => (~last.raised /\ pc = "loop" /\ contacts = <<>>)

\* C8. The menu loop ends only by option 6: no outcome of add, update, delete,
\* list or search (validation failure, name not found, failing save) ends it.
C8_LoopEndsOnlyOnExit ==
  (pc \in {"exited", "crashed"} /\ last.op # "startup") => last.op = "exit"

\* In AfterRemovals and Removable the items are those of a list, tuple,
\* collection or mapping; Stops(cs, items) is how many are removed before one
\* finds no equal element, all of them when none does.
Stops(cs, items) ==
  CHOOSE k \in 0..Len(items) :
    /\ Removable(cs, items, k)
    /\ k < Len(items) => ~Removable(cs, items, k + 1)

PartialThenFail(cs, items, r) ==
  /\ r.cs = AfterRemovals(cs, items, Stops(cs, items))
  /\ r.raised = (Stops(cs, items) < Len(items))

\* C9. Bulk removal is partial-apply-then-fail: -= and - with several
\* contacts remove in input order, each removal dropping the first stored
\* element equal by name; at the first input with no equal element the call
\* raises, the removals made before it stay applied to the collection worked
\* on, and no later input is processed.
C9_BulkRemovePartial ==
  pc = "api" =>
    \A x \in {y \in ApiInputs : y.type \in {"list", "dict"}} :
      /\ PartialThenFail(coll, x.items, _remove(coll, x))
      /\ PartialThenFail(coll, x.items, __sub__(coll, x))

\* A -= of two items removed the first and raised at the second.
C9_Witness ==
  /\ pc = "api"
  /\ collLast.op = "isub"
  /\ collLast.type = "list"
  /\ collLast.size = 2
  /\ collLast.raised
  /\ collLast.shrank = 1
  /\ coll = collLast.target

\* C10 as stated. A save that fails is not handled in add_contact,
\* update_contact or delete_contact: it propagates to the caller.
C10_FailedSavePropagates ==
  (last.op \in {"add", "update", "delete"} /\ FailedSave(last.io)) => last.raised

\* C10 as amended: a save that fails propagates out of delete_contact, while
\* add_contact and update_contact catch it and print an error line; on load,
\* a missing file is handled and any other failure propagates.
C10_FailedSaveByOperation ==
  /\ (last.op = "delete" /\ FailedSave(last.io)) => (last.raised /\ pc = "crashed")
  /\ (last.op \in {"add", "update"} /\ FailedSave(last.io))
       => (~last.raised /\ last.msg = "Error" /\ pc = "loop")
  /\ (last.op = "startup" /\ last.io = "enoent") => (~last.raised /\ pc = "loop")
  /\ (last.op = "startup" /\ last.io = "eio") => (last.raised /\ pc = "crashed")

\* A delete whose save failed left main().
C10_Witness ==
  /\ last.op = "delete"
  /\ FailedSave(last.io)
  /\ pc = "crashed"

====
